---- MODULE Spec2Model ----
(***************************************************************************)
(* Verification model of the path-planning repository: the occupancy grid  *)
(* (environment/grid_map.py), the A* and Dijkstra planners                 *)
(* (algorithms/astar.py, algorithms/dijkstra.py) and the map generator     *)
(* (environment/map_generator.py).                                         *)
(*                                                                         *)
(* Coordinates are pairs <<x, y>>.  Python floats are IEEE-754 doubles;    *)
(* every float the planners handle is 0 or lies in [1, 32), so a float v   *)
(* is kept exactly as the integer v * 2^52 split in two limbs              *)
(* <<hi, lo>> with v * 2^52 = hi * 2^28 + lo, and float addition rounds    *)
(* the exact sum to 53 significant bits (round half to even).              *)
(***************************************************************************)
EXTENDS Integers, Sequences, FiniteSets, TLC

\* ------------------------------------------------------------------ bounds
\* <<width, height>> of the grids the planners are run on
PlanShape == <<4, 3>>

PlanW == PlanShape[1]

PlanH == PlanShape[2]

\* largest number of Blocked cells in a planning grid
MaxObstacles == 3

\* largest width and height requested from generate_maze
MaxMazeSize == 8

\* <<width, height>> of the grids distances are measured on
DistShape == <<11, 2>>

\* largest number of Blocked cells in a grid distances are measured on
MaxDistObstacles == 2

\* <<width, height>> of the grid the GridMap methods are called on
GridShape == <<2, 2>>

\* ------------------------------------------------------- IEEE-754 doubles
Limb == 268435456

FZero == <<0, 0>>

\* 1.0
FOne == <<16777216, 0>>

\* the double nearest to 1.414 (grid_map.py line 101)
DiagCost == <<23722983, 113816633>>

\* float('inf')
FInf == <<1073741824, 0>>

FLess(a, b) == a[1] < b[1] \/ (a[1] = b[1] /\ a[2] < b[2])

\* number of low bits of the exact sum that a double cannot hold
DropBits(hi) ==
  IF hi < 33554432 THEN 0
  ELSE IF hi < 67108864 THEN 1
  ELSE IF hi < 134217728 THEN 2
  ELSE IF hi < 268435456 THEN 3
  ELSE 4

Pow2(k) == IF k = 0 THEN 1 ELSE IF k = 1 THEN 2 ELSE IF k = 2 THEN 4
           ELSE IF k = 3 THEN 8 ELSE 16

\* a + b on doubles: the exact sum, rounded to nearest, ties to even
FAdd(a, b) ==
  LET s    == a[2] + b[2]
      lo   == s % Limb
      hi   == a[1] + b[1] + (s \div Limb)
      k    == DropBits(hi)
      unit == Pow2(k)
      r    == lo % unit
      q    == lo - r
      up   == /\ k > 0
              /\ \/ 2 * r > unit
                 \/ (2 * r = unit /\ (q \div unit) % 2 = 1)
      lo2  == IF up THEN q + unit ELSE q
  IN  IF lo2 = Limb THEN <<hi + 1, 0>> ELSE <<hi, lo2>>

\* math.sqrt(n) for the integers n = 1 .. 200, correctly rounded
SqrtTable ==
  << <<16777216, 0>>, <<23726566, 109001677>>, <<29058990, 140004522>>,
     <<33554432, 0>>, <<37514995, 120580432>>, <<41095618, 135414364>>,
     <<44388341, 61206996>>, <<47453132, 218003354>>, <<50331648, 0>>,
     <<53054215, 95729318>>, <<55643730, 133881448>>, <<58117981, 11573588>>,
     <<60491112, 146977766>>, <<62774594, 47218322>>, <<64977878, 43949492>>,
     <<67108864, 0>>, <<69174233, 180335644>>, <<71179699, 58569572>>,
     <<73130189, 26294244>>, <<75029990, 241160864>>, <<76882862, 72645140>>,
     <<78692118, 89217692>>, <<80460701, 98308184>>, <<82191237, 2393272>>,
     <<83886080, 0>>, <<85547351, 206094296>>, <<87176971, 151578112>>,
     <<88776682, 122413992>>, <<90348073, 44263372>>,
     <<91892596, 148543036>>, <<93411585, 94570252>>,
     <<94906265, 167571252>>, <<96377768, 93012928>>,
     <<97827139, 114200200>>, <<99255348, 105842868>>, <<100663296, 0>>,
     <<102051820, 227504356>>, <<103421705, 64756068>>,
     <<104773680, 90918440>>, <<106108430, 191458636>>,
     <<107426598, 109050880>>, <<108728786, 144198032>>,
     <<110015562, 141985152>>, <<111287460, 267762896>>,
     <<112544986, 93305840>>, <<113788615, 29573260>>,
     <<115018798, 14045080>>, <<116235962, 23147176>>, <<117440512, 0>>,
     <<118632832, 8137472>>, <<119813287, 78974776>>,
     <<120982225, 25520076>>, <<122139976, 31190948>>,
     <<123286855, 137807640>>, <<124423163, 246122336>>,
     <<125549188, 94436644>>, <<126665203, 22756720>>,
     <<127771470, 108466624>>, <<128868241, 91126636>>,
     <<129955756, 87898984>>, <<131034245, 221893024>>,
     <<132103930, 238369864>>, <<133165023, 183620988>>, <<134217728, 0>>,
     <<135262239, 185456256>>, <<136298747, 28688480>>,
     <<137327431, 131507288>>, <<138348467, 92235832>>,
     <<139362022, 209092680>>, <<140368259, 224755416>>,
     <<141367334, 212850736>>, <<142359398, 117139144>>,
     <<143344596, 91268376>>, <<144323069, 28838512>>,
     <<145294952, 163151704>>, <<146260378, 52588488>>,
     <<147219472, 246849304>>, <<148172359, 191858720>>,
     <<149119157, 158188416>>, <<150059981, 213886272>>, <<150994944, 0>>,
     <<151924152, 114278688>>, <<152847712, 2941248>>,
     <<153765724, 145290280>>, <<154678288, 209810640>>,
     <<155585500, 161202592>>, <<156487453, 23500592>>,
     <<157384236, 178435384>>, <<158275939, 51657224>>,
     <<159162646, 18752496>>, <<160044440, 88690008>>,
     <<160921402, 196616368>>, <<161793611, 227027456>>,
     <<162661144, 35821616>>, <<163524074, 8170760>>, <<164382474, 4786544>>,
     <<165236414, 186299152>>, <<166085964, 226140824>>,
     <<166931191, 133208888>>, <<167772160, 0>>, <<168608934, 18435968>>,
     <<169441575, 226550736>>, <<170270145, 254511768>>,
     <<171094703, 143753136>>, <<171915306, 91769928>>,
     <<172732010, 196346944>>, <<173544871, 199251008>>,
     <<174353943, 34720768>>, <<175159277, 109038008>>,
     <<175960925, 237462936>>, <<176758938, 191346432>>,
     <<177553364, 244827984>>, <<178344252, 110526896>>,
     <<179131648, 22342352>>, <<179915597, 207283904>>,
     <<180696146, 88526744>>, <<181473337, 172497848>>,
     <<182247214, 177557200>>, <<183017819, 115174952>>,
     <<183785193, 28650616>>, <<184549376, 0>>, <<185310407, 156586560>>,
     <<186068326, 140637680>>, <<186823170, 189140504>>,
     <<187574977, 66031248>>, <<188323782, 141654968>>,
     <<189069622, 56102528>>, <<189812531, 66707048>>,
     <<190552543, 247870016>>, <<191289693, 227579736>>,
     <<192024013, 265935784>>, <<192755536, 186025856>>,
     <<193484293, 183693712>>, <<194210316, 26543600>>,
     <<194933634, 131848472>>, <<195654278, 228400400>>,
     <<196372278, 165711616>>, <<197087662, 186216984>>,
     <<197800459, 123612000>>, <<198510696, 211685736>>,
     <<199218402, 13992448>>, <<199923602, 37769032>>,
     <<200626323, 126522400>>, <<201326592, 0>>, <<202024433, 62499120>>,
     <<202719872, 63599456>>, <<203412933, 174725288>>,
     <<204103641, 186573256>>, <<204792020, 48634416>>,
     <<205478092, 140200912>>, <<206161881, 199118344>>,
     <<206843410, 129512136>>, <<207522701, 4136016>>,
     <<208199775, 66651488>>, <<208874654, 196969920>>,
     <<209547360, 181836880>>, <<210217913, 253789984>>,
     <<210886335, 19444328>>, <<211552644, 72074792>>,
     <<212216861, 114481816>>, <<212879006, 34593368>>,
     <<213539097, 175708720>>, <<214197154, 264514704>>,
     <<214853196, 218101760>>, <<215507241, 145626736>>,
     <<216159307, 81494968>>, <<216809411, 255369488>>,
     <<217457573, 19960608>>, <<218103808, 0>>, <<218748133, 214643336>>,
     <<219390567, 78882728>>, <<220031125, 15534848>>,
     <<220669823, 114403056>>, <<221306678, 133582008>>,
     <<221941706, 37599520>>, <<222574921, 267090336>>,
     <<223206341, 129390048>>, <<223835979, 215630272>>,
     <<224463851, 254401328>>, <<225089972, 186611680>>,
     <<225714356, 166577568>>, <<226337018, 26214768>>,
     <<226957971, 81381288>>, <<227577230, 59146520>>,
     <<228194808, 172519288>>, <<228810720, 47668296>>,
     <<229424978, 67038488>>, <<230037596, 28090160>>,
     <<230648586, 217935424>>, <<231257963, 72034144>>,
     <<231865738, 54094816>>, <<232471924, 46294352>>,
     <<233076533, 155397576>>, <<233679578, 176680416>>,
     <<234281071, 131576584>>, <<234881024, 0>>, <<235479447, 257956168>>,
     <<236076354, 267653072>>, <<236671756, 157256512>>,
     <<237265664, 16274944>> >>

FSqrt(n) == IF n = 0 THEN FZero ELSE SqrtTable[n]

\* float(n) for a small non-negative integer n
FInt(n) == <<n * 16777216, 0>>

\* min(a, b)
FMin(a, b) == IF FLess(b, a) THEN b ELSE a

\* the least float of a set, float('inf') for the empty set
FMinOf(S) ==
  IF S = {} THEN FInf
  ELSE CHOOSE m \in S : \A v \in S : ~FLess(v, m)

\* ------------------------------------------------------------------ state
VARIABLES
  width,      \* GridMap.width
  height,     \* GridMap.height
  grid,       \* GridMap.grid: cell <<x, y>> -> 0 (Free) or 1 (Blocked)
  start,      \* GridMap.start, None when unset
  goal,       \* GridMap.goal, None when unset
  p_start,    \* the start argument of plan()
  p_goal,     \* the goal argument of plan()
  dijkstra,   \* locals and result of DijkstraPlanner.plan
  astar,      \* locals and result of AStarPlanner.plan
  stack,      \* the stack of MapGenerator.generate_maze
  pc,         \* where the running operation stands
  call        \* the last GridMap method called: name, arguments, outcome

vars == <<width, height, grid, start, goal, p_start, p_goal, dijkstra, astar,
          stack, pc, call>>

gridVars == <<width, height, grid, start, goal>>

planVars == <<p_start, p_goal, dijkstra, astar>>

None == <<>>

\* no GridMap method has been called yet
NoCall == [op |-> "none"]

Cells(w, h) == (0 .. w - 1) \X (0 .. h - 1)

\* ---------------------------------------------------------------- GridMap
\* the sets of at most k cells
RECURSIVE CellSets(_, _)
CellSets(cells, k) ==
  IF k = 0 THEN {{}}
  ELSE LET smaller == CellSets(cells, k - 1)
       IN  smaller \cup {T \cup {c} : T \in smaller, c \in cells}

\* the grids GridMap(width, height) followed by at most k calls of
\* set_obstacle on in-bounds cells can build
GridsWith(cells, k) ==
  {[c \in cells |-> IF c \in obstacles THEN 1 ELSE 0] :
     obstacles \in CellSets(cells, k)}

is_valid(x, y) == 0 <= x /\ x < width /\ 0 <= y /\ y < height

is_obstacle(x, y) == IF ~is_valid(x, y) THEN TRUE ELSE grid[<<x, y>>] = 1

directions_4 == << <<0, 1>>, <<1, 0>>, <<0, -1>>, <<-1, 0>> >>

directions_8 == << <<0, 1>>, <<1, 0>>, <<0, -1>>, <<-1, 0>>,
                   <<1, 1>>, <<1, -1>>, <<-1, 1>>, <<-1, -1>> >>

\* mutant: the is_obstacle test is missing, a Blocked in-bounds cell is listed
RECURSIVE NeighborLoop_in_bounds_only(_, _, _, _)
NeighborLoop_in_bounds_only(x, y, directions, i) ==
  IF i > Len(directions) THEN <<>>
  ELSE LET dx == directions[i][1]
           dy == directions[i][2]
           nx == x + dx
           ny == y + dy
           cost == IF dx # 0 /\ dy # 0 THEN DiagCost ELSE FOne
           rest == NeighborLoop_in_bounds_only(x, y, directions, i + 1)
       IN  IF is_valid(nx, ny)
           THEN <<<<nx, ny, cost>>>> \o rest
           ELSE rest

RECURSIVE NeighborLoop(_, _, _, _)
NeighborLoop(x, y, directions, i) ==
  IF i > Len(directions) THEN <<>>
  ELSE LET dx == directions[i][1]
           dy == directions[i][2]
           nx == x + dx
           ny == y + dy
           cost == IF dx # 0 /\ dy # 0 THEN DiagCost ELSE FOne
           rest == NeighborLoop(x, y, directions, i + 1)
       IN  IF is_valid(nx, ny) /\ ~is_obstacle(nx, ny)
           THEN <<<<nx, ny, cost>>>> \o rest
           ELSE rest

\* mutant: the diagonal flag is ignored and only the 4 orthogonal offsets are tried
get_neighbors_orthogonal(x, y, allow_diagonal) ==
  NeighborLoop(x, y, directions_4, 1)

get_neighbors(x, y, allow_diagonal) ==
  NeighborLoop(x, y, IF allow_diagonal THEN directions_8 ELSE directions_4, 1)

search_radius == 10

\* mutant: the square root is missing, the squared distance is returned
get_distance_to_obstacle_squared(x, y) ==
  LET hits == {d \in (-search_radius .. search_radius)
                       \X (-search_radius .. search_radius) :
                 is_valid(x + d[1], y + d[2]) /\ is_obstacle(x + d[1], y + d[2])}
      min_dist == FMinOf({FInt(d[1] * d[1] + d[2] * d[2]) : d \in hits})
  IN  IF min_dist # FInf THEN min_dist ELSE FInt(search_radius)

\* the least np.sqrt(dx**2 + dy**2) over the window offsets that land on an
\* in-bounds Blocked cell, search_radius when there is none
get_distance_to_obstacle(x, y) ==
  LET hits == {d \in (-search_radius .. search_radius)
                       \X (-search_radius .. search_radius) :
                 is_valid(x + d[1], y + d[2]) /\ is_obstacle(x + d[1], y + d[2])}
      min_dist == FMinOf({FSqrt(d[1] * d[1] + d[2] * d[2]) : d \in hits})
  IN  IF min_dist # FInf THEN min_dist ELSE FInt(search_radius)

\* mutant: only the bounds are tested, a Blocked cell is accepted
can_place_in_bounds(x, y) == is_valid(x, y)

\* the test of set_start and set_goal
can_place(x, y) == is_valid(x, y) /\ ~is_obstacle(x, y)

\* --------------------------------------------------------------- planners
allow_diagonal == TRUE

\* mutant: heappop looks at the priority only, the counter decides nothing
HeapMins_priority_only(open_list) ==
  {e \in open_list : \A o \in open_list : ~FLess(o[1], e[1])}

\* the entries heappop may return: those no other entry precedes by
\* priority, then counter.  heapq compares the (priority, counter, node)
\* tuples; which of two entries equal in both comes first is left open
HeapMins(open_list) ==
  {e \in open_list :
     \A o \in open_list : ~(FLess(o[1], e[1]) \/ (o[1] = e[1] /\ o[2] < e[2]))}

\* the smallest (priority, counter, node) tuple of the heap
HeapMin(open_list) ==
  CHOOSE e \in open_list :
    \A o \in open_list :
      o = e \/ FLess(e[1], o[1]) \/ (e[1] = o[1] /\ e[2] < o[2])

RECURSIVE PathWalk(_, _, _)
PathWalk(came_from, current, path) ==
  IF current \in DOMAIN came_from
  THEN PathWalk(came_from, came_from[current], <<came_from[current]>> \o path)
  ELSE path

RECURSIVE PathWalkBack(_, _, _)
PathWalkBack(came_from, current, path) ==
  IF current \in DOMAIN came_from
  THEN PathWalkBack(came_from, came_from[current], Append(path, came_from[current]))
  ELSE path

\* mutant: the final path.reverse() is missing
reconstruct_path_unreversed(came_from, current) ==
  PathWalkBack(came_from, current, <<current>>)

\* path = [current]; follow came_from; reverse
reconstruct_path(came_from, current) == PathWalk(came_from, current, <<current>>)

\* mutant: the estimate grows towards the goal instead of shrinking
heuristic_inverted(pos1, pos2) ==
  FSqrt((PlanW - 1) * (PlanW - 1) + (PlanH - 1) * (PlanH - 1)
        - ((pos1[1] - pos2[1]) * (pos1[1] - pos2[1])
           + (pos1[2] - pos2[2]) * (pos1[2] - pos2[2])))

heuristic(pos1, pos2) ==
  FSqrt((pos1[1] - pos2[1]) * (pos1[1] - pos2[1])
        + (pos1[2] - pos2[2]) * (pos1[2] - pos2[2]))

Put(f, k, v) == [n \in DOMAIN f \cup {k} |-> IF n = k THEN v ELSE f[n]]

\* ---- Dijkstra
DijkstraStart(s) ==
  [open_list |-> {<<FZero, 0, s>>}, counter |-> 1, came_from |-> <<>>,
   cost_so_far |-> [n \in {s} |-> FZero], closed_set |-> {},
   explored_nodes |-> <<>>, nodes_explored |-> 0,
   pc |-> "loop", path |-> None, path_cost |-> FZero]

\* mutant: the comparison is inverted, a costlier route replaces a cheaper one
RECURSIVE DijkstraExpand_inverted(_, _, _, _)
DijkstraExpand_inverted(st, current, nbrs, i) ==
  IF i > Len(nbrs) THEN st
  ELSE LET neighbor == <<nbrs[i][1], nbrs[i][2]>>
           cost     == nbrs[i][3]
           new_cost == FAdd(st.cost_so_far[current], cost)
       IN  IF neighbor \in st.closed_set
           THEN DijkstraExpand_inverted(st, current, nbrs, i + 1)
           ELSE IF \/ neighbor \notin DOMAIN st.cost_so_far
                   \/ FLess(st.cost_so_far[neighbor], new_cost)
           THEN DijkstraExpand_inverted(
                  [st EXCEPT !.came_from = Put(@, neighbor, current),
                             !.cost_so_far = Put(@, neighbor, new_cost),
                             !.open_list = @ \cup {<<new_cost, st.counter, neighbor>>},
                             !.counter = @ + 1],
                  current, nbrs, i + 1)
           ELSE DijkstraExpand_inverted(st, current, nbrs, i + 1)

RECURSIVE DijkstraExpand(_, _, _, _)
DijkstraExpand(st, current, nbrs, i) ==
  IF i > Len(nbrs) THEN st
  ELSE LET neighbor == <<nbrs[i][1], nbrs[i][2]>>
           cost     == nbrs[i][3]
           new_cost == FAdd(st.cost_so_far[current], cost)
       IN  IF neighbor \in st.closed_set
           THEN DijkstraExpand(st, current, nbrs, i + 1)
           ELSE IF \/ neighbor \notin DOMAIN st.cost_so_far
                   \/ FLess(new_cost, st.cost_so_far[neighbor])
           THEN DijkstraExpand(
                  [st EXCEPT !.came_from = Put(@, neighbor, current),
                             !.cost_so_far = Put(@, neighbor, new_cost),
                             !.open_list = @ \cup {<<new_cost, st.counter, neighbor>>},
                             !.counter = @ + 1],
                  current, nbrs, i + 1)
           ELSE DijkstraExpand(st, current, nbrs, i + 1)

\* mutant: the closed-set test after heappop is missing, a stale entry is
\* expanded again
DijkstraVisit_no_closed_test(st, e, g) ==
  LET current == e[3]
      popped  == [st EXCEPT !.open_list = @ \ {e}]
      seen    == [popped EXCEPT
                    !.explored_nodes = Append(@, current),
                    !.nodes_explored = @ + 1]
  IN  IF current = g
      THEN [seen EXCEPT
              !.pc = "found",
              !.path = reconstruct_path(st.came_from, current),
              !.path_cost = st.cost_so_far[current]]
      ELSE DijkstraExpand(
             [seen EXCEPT !.closed_set = @ \cup {current}],
             current,
             get_neighbors(current[1], current[2], allow_diagonal),
             1)

\* the body of the while loop of DijkstraPlanner.plan once heappop has
\* returned the entry e
DijkstraVisit(st, e, g) ==
  LET current == e[3]
      popped  == [st EXCEPT !.open_list = @ \ {e}]
  IN  IF current \in st.closed_set
      THEN popped
      ELSE LET seen == [popped EXCEPT
                          !.explored_nodes = Append(@, current),
                          !.nodes_explored = @ + 1]
           IN  IF current = g
               THEN [seen EXCEPT
                       !.pc = "found",
                       !.path = reconstruct_path(st.came_from, current),
                       !.path_cost = st.cost_so_far[current]]
               ELSE DijkstraExpand(
                      [seen EXCEPT !.closed_set = @ \cup {current}],
                      current,
                      get_neighbors(current[1], current[2], allow_diagonal),
                      1)

\* the return after the while loop: no path
DijkstraFail(st) == [st EXCEPT !.pc = "failed", !.path = None, !.path_cost = FInf]

\* one iteration of the while loop of DijkstraPlanner.plan, or its exit
DijkstraIter(st, g) ==
  IF st.open_list = {}
  THEN DijkstraFail(st)
  ELSE DijkstraVisit(st, HeapMin(st.open_list), g)

\* ---- A*
AStarStart(s, g) ==
  [open_list |-> {<<FZero, 0, s>>}, counter |-> 1, came_from |-> <<>>,
   g_score |-> [n \in {s} |-> FZero],
   f_score |-> [n \in {s} |-> heuristic(s, g)], closed_set |-> {},
   explored_nodes |-> <<>>, nodes_explored |-> 0,
   pc |-> "loop", path |-> None, path_cost |-> FZero]

RECURSIVE AStarExpand(_, _, _, _, _)
AStarExpand(st, current, g, nbrs, i) ==
  IF i > Len(nbrs) THEN st
  ELSE LET neighbor    == <<nbrs[i][1], nbrs[i][2]>>
           cost        == nbrs[i][3]
           tentative_g == FAdd(st.g_score[current], cost)
           f           == FAdd(tentative_g, heuristic(neighbor, g))
       IN  IF neighbor \in st.closed_set
           THEN AStarExpand(st, current, g, nbrs, i + 1)
           ELSE IF \/ neighbor \notin DOMAIN st.g_score
                   \/ FLess(tentative_g, st.g_score[neighbor])
           THEN AStarExpand(
                  [st EXCEPT !.came_from = Put(@, neighbor, current),
                             !.g_score = Put(@, neighbor, tentative_g),
                             !.f_score = Put(@, neighbor, f),
                             !.open_list = @ \cup {<<f, st.counter, neighbor>>},
                             !.counter = @ + 1],
                  current, g, nbrs, i + 1)
           ELSE AStarExpand(st, current, g, nbrs, i + 1)

\* the body of the while loop of AStarPlanner.plan once heappop has
\* returned the entry e
AStarVisit(st, e, g) ==
  LET current == e[3]
      popped  == [st EXCEPT !.open_list = @ \ {e}]
  IN  IF current \in st.closed_set
      THEN popped
      ELSE LET seen == [popped EXCEPT
                          !.explored_nodes = Append(@, current),
                          !.nodes_explored = @ + 1]
           IN  IF current = g
               THEN [seen EXCEPT
                       !.pc = "found",
                       !.path = reconstruct_path(st.came_from, current),
                       !.path_cost = st.g_score[current]]
               ELSE AStarExpand(
                      [seen EXCEPT !.closed_set = @ \cup {current}],
                      current, g,
                      get_neighbors(current[1], current[2], allow_diagonal),
                      1)

\* the return after the while loop: no path
AStarFail(st) == [st EXCEPT !.pc = "failed", !.path = None, !.path_cost = FInf]

\* one iteration of the while loop of AStarPlanner.plan, or its exit
AStarIter(st, g) ==
  IF st.open_list = {}
  THEN AStarFail(st)
  ELSE AStarVisit(st, HeapMin(st.open_list), g)

\* ------------------------------------------- specification of the planners
\* grids of PlanW x PlanH cells with at most MaxObstacles Blocked cells; plan()
\* is called with the grid's start and goal, which set_start and set_goal
\* keep on Free cells (main.py lines 93-94, 122)
PlanGrids == GridsWith(Cells(PlanW, PlanH), MaxObstacles)

PlanInit ==
  /\ width = PlanW
  /\ height = PlanH
  /\ grid \in PlanGrids
  /\ start = None
  /\ goal = None
  /\ p_start \in {c \in Cells(PlanW, PlanH) : grid[c] = 0}
  /\ p_goal \in {c \in Cells(PlanW, PlanH) : grid[c] = 0}
  /\ dijkstra = DijkstraStart(p_start)
  /\ astar = AStarStart(p_start, p_goal)
  /\ stack = <<>>
  /\ pc = "plan"
  /\ call = NoCall

\* the planners run one after the other on the same grid, A* first
\* (main.py lines 115-122)
AStarStep ==
  /\ astar.pc = "loop"
  /\ astar' = AStarIter(astar, p_goal)
  /\ UNCHANGED <<gridVars, p_start, p_goal, dijkstra, stack, pc, call>>

DijkstraStep ==
  /\ astar.pc # "loop"
  /\ dijkstra.pc = "loop"
  /\ dijkstra' = DijkstraIter(dijkstra, p_goal)
  /\ UNCHANGED <<gridVars, p_start, p_goal, astar, stack, pc, call>>

PlanNext == AStarStep \/ DijkstraStep

SpecPlan == PlanInit /\ [][PlanNext]_vars

BothDone == dijkstra.pc # "loop" /\ astar.pc # "loop"

BothFound == dijkstra.pc = "found" /\ astar.pc = "found"

\* ---- the planners on a wider grid
\* <<width, height>> of the wider planning grids
WideShape == <<5, 4>>

\* largest number of Blocked cells in a wider planning grid
MaxWideObstacles == 1

WideInit ==
  /\ width = WideShape[1]
  /\ height = WideShape[2]
  /\ grid \in GridsWith(Cells(width, height), MaxWideObstacles)
  /\ start = None
  /\ goal = None
  /\ p_start \in {c \in Cells(width, height) : grid[c] = 0}
  /\ p_goal \in {c \in Cells(width, height) : grid[c] = 0}
  /\ dijkstra = DijkstraStart(p_start)
  /\ astar = AStarStart(p_start, p_goal)
  /\ stack = <<>>
  /\ pc = "plan"
  /\ call = NoCall

SpecWide == WideInit /\ [][PlanNext]_vars

\* ---- the planners on a longer grid with a partial wall
\* <<width, height>> of the longer planning grids
LongShape == <<4, 6>>

\* largest number of Blocked cells; they all lie in the row y = 1
MaxWallCells == 2

\* a grid with a partial wall across the row y = 1, a start in the row
\* y = 0 below it and a goal anywhere
LongInit ==
  /\ width = LongShape[1]
  /\ height = LongShape[2]
  /\ \E obstacles \in CellSets({c \in Cells(width, height) : c[2] = 1}, MaxWallCells) :
       grid = [c \in Cells(width, height) |-> IF c \in obstacles THEN 1 ELSE 0]
  /\ start = None
  /\ goal = None
  /\ p_start \in {c \in Cells(width, height) : c[2] = 0}
  /\ p_goal \in {c \in Cells(width, height) : grid[c] = 0}
  /\ dijkstra = DijkstraStart(p_start)
  /\ astar = AStarStart(p_start, p_goal)
  /\ stack = <<>>
  /\ pc = "plan"
  /\ call = NoCall

SpecLong == LongInit /\ [][PlanNext]_vars

\* ------------------------------------------------ runs of plan() compared
\* plan() run alone from its first statement to its return
RECURSIVE AStarRun(_, _)
AStarRun(st, g) == IF st.pc # "loop" THEN st ELSE AStarRun(AStarIter(st, g), g)

RECURSIVE DijkstraRun(_, _)
DijkstraRun(st, g) ==
  IF st.pc # "loop" THEN st ELSE DijkstraRun(DijkstraIter(st, g), g)

\* what plan() returns: the path, and the stats path_cost, explored_nodes
\* and nodes_explored
PlanResult(st) ==
  <<st.pc, st.path, st.path_cost, st.explored_nodes, st.nodes_explored>>

\* an iteration of A* with any entry heappop may return
AStarAnyStep ==
  /\ astar.pc = "loop"
  /\ IF astar.open_list = {}
     THEN astar' = AStarFail(astar)
     ELSE \E e \in HeapMins(astar.open_list) : astar' = AStarVisit(astar, e, p_goal)
  /\ UNCHANGED <<gridVars, p_start, p_goal, dijkstra, stack, pc, call>>

\* an iteration of Dijkstra with any entry heappop may return
DijkstraAnyStep ==
  /\ dijkstra.pc = "loop"
  /\ IF dijkstra.open_list = {}
     THEN dijkstra' = DijkstraFail(dijkstra)
     ELSE \E e \in HeapMins(dijkstra.open_list) :
            dijkstra' = DijkstraVisit(dijkstra, e, p_goal)
  /\ UNCHANGED <<gridVars, p_start, p_goal, astar, stack, pc, call>>

\* the planners run one after the other, A* first (main.py lines 115-122)
RunsNext ==
  \/ AStarAnyStep
  \/ astar.pc # "loop" /\ DijkstraAnyStep

SpecRuns == PlanInit /\ [][RunsNext]_vars

\* ------------------------------------------------ concurrent plan() calls
\* <<width, height>> of the grid two planners share
ConcShape == <<3, 3>>

\* largest number of Blocked cells in the shared grid
MaxConcObstacles == 3

\* one GridMap instance, and a Dijkstra and an A* planner created on it; each
\* plan() call has its own locals
ConcInit ==
  /\ width = ConcShape[1]
  /\ height = ConcShape[2]
  /\ grid \in GridsWith(Cells(width, height), MaxConcObstacles)
  /\ start = None
  /\ goal = None
  /\ p_start \in {c \in Cells(width, height) : grid[c] = 0}
  /\ p_goal \in {c \in Cells(width, height) : grid[c] = 0}
  /\ dijkstra = DijkstraStart(p_start)
  /\ astar = AStarStart(p_start, p_goal)
  /\ stack = <<>>
  /\ pc = "plan"
  /\ call = NoCall

\* mutant: the Dijkstra call reads the closed set of the A* call as its own
DijkstraConcStep_shared_closed ==
  /\ dijkstra.pc = "loop"
  /\ IF dijkstra.open_list = {}
     THEN dijkstra' = DijkstraFail(dijkstra)
     ELSE \E e \in HeapMins(dijkstra.open_list) :
            dijkstra' = DijkstraVisit(
                          [dijkstra EXCEPT !.closed_set = @ \cup astar.closed_set],
                          e, p_goal)
  /\ UNCHANGED <<gridVars, p_start, p_goal, astar, stack, pc, call>>

\* a loop iteration of the thread running DijkstraPlanner.plan
DijkstraConcStep == DijkstraAnyStep

\* a loop iteration of the thread running AStarPlanner.plan
AStarConcStep == AStarAnyStep

\* the two threads take their iterations in any order
ConcNext == AStarConcStep \/ DijkstraConcStep

SpecConc == ConcInit /\ [][ConcNext]_vars

\* ----------------------------------------------------------- MapGenerator
\* the planners are idle while a map is generated
PlanIdle ==
  /\ p_start = None
  /\ p_goal = None
  /\ dijkstra = None
  /\ astar = None

\* width if width % 2 == 1 else width - 1
ForceOdd(n) == IF n % 2 = 1 THEN n ELSE n - 1

\* dx // 2 for the offsets 2, 0 and -2
HalfStep(d) == IF d = 2 THEN 1 ELSE IF d = -2 THEN -1 ELSE 0

maze_directions == << <<0, 2>>, <<2, 0>>, <<0, -2>>, <<-2, 0>> >>

\* mutant: the unvisited test reads the wall cell instead of the target cell
RECURSIVE maze_neighbors_wall_test(_, _, _, _, _, _)
maze_neighbors_wall_test(g, w, h, x, y, i) ==
  IF i > Len(maze_directions) THEN <<>>
  ELSE LET dx == maze_directions[i][1]
           dy == maze_directions[i][2]
           nx == x + dx
           ny == y + dy
           wx == x + HalfStep(dx)
           wy == y + HalfStep(dy)
           rest == maze_neighbors_wall_test(g, w, h, x, y, i + 1)
       IN  IF 0 < nx /\ nx < w - 1 /\ 0 < ny /\ ny < h - 1 /\ g[<<wx, wy>>] = 1
           THEN <<<<nx, ny, wx, wy>>>> \o rest
           ELSE rest

\* the lattice cells two steps away that are still Blocked, each with the
\* wall cell between
RECURSIVE maze_neighbors(_, _, _, _, _, _)
maze_neighbors(g, w, h, x, y, i) ==
  IF i > Len(maze_directions) THEN <<>>
  ELSE LET dx == maze_directions[i][1]
           dy == maze_directions[i][2]
           nx == x + dx
           ny == y + dy
           rest == maze_neighbors(g, w, h, x, y, i + 1)
       IN  IF 0 < nx /\ nx < w - 1 /\ 0 < ny /\ ny < h - 1 /\ g[<<nx, ny>>] = 1
           THEN <<<<nx, ny, x + HalfStep(dx), y + HalfStep(dy)>>>> \o rest
           ELSE rest

\* mutant: the wall between the two lattice cells is left standing
carve_target_only(g, n) == [g EXCEPT ![<<n[1], n[2]>>] = 0]

\* grid[wy, wx] = 0; grid[ny, nx] = 0
carve(g, n) == [g EXCEPT ![<<n[3], n[4]>>] = 0, ![<<n[1], n[2]>>] = 0]

\* np.argwhere(grid == 0): the Free cells row by row, as <<x, y>>
free_spaces(g, w, h) ==
  SelectSeq([k \in 1 .. w * h |-> <<(k - 1) % w, (k - 1) \div w>>],
            LAMBDA c : g[c] = 0)

Dist2(a, b) ==
  (a[1] - b[1]) * (a[1] - b[1]) + (a[2] - b[2]) * (a[2] - b[2])

\* mutant: the first Free cell is taken, whatever its distance
argmax_distance_first(free, idx1) == 1

\* np.argmax(np.linalg.norm(free - free[idx1], axis=1)): the first index
\* whose distance to free[idx1] is the largest (the norm grows with the
\* squared distance, which decides the comparison)
argmax_distance(free, idx1) ==
  CHOOSE i \in 1 .. Len(free) :
    /\ \A j \in 1 .. Len(free) : Dist2(free[j], free[idx1]) <= Dist2(free[i], free[idx1])
    /\ \A j \in 1 .. i - 1 : Dist2(free[j], free[idx1]) < Dist2(free[i], free[idx1])

\* MapGenerator._add_random_start_goal
add_random_start_goal ==
  LET free == free_spaces(grid, width, height)
  IN  IF Len(free) < 2
      THEN /\ grid' = [grid EXCEPT ![<<1, 1>>] = 0,
                                   ![<<width - 2, height - 2>>] = 0]
           /\ start' = <<1, 1>>
           /\ goal' = <<width - 2, height - 2>>
      ELSE \E idx1 \in 1 .. Len(free) :
             /\ grid' = grid
             /\ start' = free[idx1]
             /\ goal' = free[argmax_distance(free, idx1)]

\* generate_maze(w, h) up to the carving loop: an all-Blocked grid of odd
\* size with (1, 1) carved and on the stack
MazeInit ==
  /\ \E w \in 3 .. MaxMazeSize, h \in 3 .. MaxMazeSize :
       /\ width = ForceOdd(w)
       /\ height = ForceOdd(h)
  /\ grid = [c \in Cells(width, height) |-> IF c = <<1, 1>> THEN 0 ELSE 1]
  /\ start = None
  /\ goal = None
  /\ stack = <<<<1, 1>>>>
  /\ pc = "carve"
  /\ call = NoCall
  /\ PlanIdle

\* a loop iteration with an unvisited neighbour: carve to one chosen at random
MazeCarve ==
  /\ pc = "carve"
  /\ stack # <<>>
  /\ LET top == stack[Len(stack)]
         neighbors == maze_neighbors(grid, width, height, top[1], top[2], 1)
     IN  /\ neighbors # <<>>
         /\ \E k \in 1 .. Len(neighbors) :
              /\ grid' = carve(grid, neighbors[k])
              /\ stack' = Append(stack, <<neighbors[k][1], neighbors[k][2]>>)
  /\ UNCHANGED <<width, height, start, goal, planVars, pc, call>>

\* mutant: the iteration with no unvisited neighbour leaves the stack as it is
MazeBacktrack_no_pop ==
  /\ pc = "carve"
  /\ stack # <<>>
  /\ LET top == stack[Len(stack)]
     IN  maze_neighbors(grid, width, height, top[1], top[2], 1) = <<>>
  /\ stack' = stack
  /\ UNCHANGED <<gridVars, planVars, pc, call>>

\* a loop iteration with no unvisited neighbour: stack.pop()
MazeBacktrack ==
  /\ pc = "carve"
  /\ stack # <<>>
  /\ LET top == stack[Len(stack)]
     IN  maze_neighbors(grid, width, height, top[1], top[2], 1) = <<>>
  /\ stack' = SubSeq(stack, 1, Len(stack) - 1)
  /\ UNCHANGED <<gridVars, planVars, pc, call>>

\* the stack is empty: assign start and goal and return
MazeFinish ==
  /\ pc = "carve"
  /\ stack = <<>>
  /\ add_random_start_goal
  /\ pc' = "done"
  /\ UNCHANGED <<width, height, planVars, stack, call>>

MazeNext == MazeCarve \/ MazeBacktrack \/ MazeFinish

SpecMaze == MazeInit /\ [][MazeNext]_vars

\* generate_maze runs on: whenever an iteration of the while loop can be
\* executed, it is executed
SpecMazeFair == SpecMaze /\ WF_vars(MazeCarve \/ MazeBacktrack)

\* ---- generate_random_map
\* <<width, height>> of the random maps
RandShape == <<3, 3>>

\* largest num_obstacles = int(width * height * obstacle_density)
MaxRandObstacles == 9

\* generate_random_map(width, height, obstacle_density) up to its loop: an
\* all-Free grid and num_obstacles iterations to go
RandomInit ==
  /\ width = RandShape[1]
  /\ height = RandShape[2]
  /\ grid = [c \in Cells(width, height) |-> 0]
  /\ start = None
  /\ goal = None
  /\ stack = <<>>
  /\ pc = "random"
  /\ \E n \in 0 .. MaxRandObstacles :
       call = [op |-> "generate_random_map", remaining |-> n]
  /\ PlanIdle

\* a loop iteration: set_obstacle on a cell drawn at random, possibly one
\* drawn before
RandomObstacle ==
  /\ pc = "random"
  /\ call.remaining > 0
  /\ \E x \in 0 .. width - 1, y \in 0 .. height - 1 :
       grid' = IF is_valid(x, y) THEN [grid EXCEPT ![<<x, y>>] = 1] ELSE grid
  /\ call' = [call EXCEPT !.remaining = @ - 1]
  /\ UNCHANGED <<width, height, start, goal, planVars, stack, pc>>

\* the loop is over: assign start and goal and return
RandomFinish ==
  /\ pc = "random"
  /\ call.remaining = 0
  /\ add_random_start_goal
  /\ pc' = "done"
  /\ UNCHANGED <<width, height, planVars, stack, call>>

\* either generation mode
GenInit == MazeInit \/ RandomInit

GenNext == MazeNext \/ RandomObstacle \/ RandomFinish

SpecGen == GenInit /\ [][GenNext]_vars

\* ------------------------------------------------ GridMap method calls
GridInit ==
  /\ width = GridShape[1]
  /\ height = GridShape[2]
  /\ grid = [c \in Cells(width, height) |-> 0]
  /\ start = None
  /\ goal = None
  /\ stack = <<>>
  /\ pc = "grid"
  /\ call = NoCall
  /\ PlanIdle

\* the coordinates methods are called with: the grid and one ring around it
CallXs == -1 .. GridShape[1]

CallYs == -1 .. GridShape[2]

set_obstacle ==
  \E x \in CallXs, y \in CallYs :
    /\ grid' = IF is_valid(x, y) THEN [grid EXCEPT ![<<x, y>>] = 1] ELSE grid
    /\ call' = [op |-> "set_obstacle", x |-> x, y |-> y, raised |-> FALSE]
    /\ UNCHANGED <<width, height, start, goal, planVars, stack, pc>>

set_start ==
  \E x \in CallXs, y \in CallYs :
    /\ IF can_place(x, y)
       THEN /\ start' = <<x, y>>
            /\ call' = [op |-> "set_start", x |-> x, y |-> y, raised |-> FALSE]
       ELSE /\ start' = start
            /\ call' = [op |-> "set_start", x |-> x, y |-> y, raised |-> TRUE]
    /\ UNCHANGED <<width, height, grid, goal, planVars, stack, pc>>

set_goal ==
  \E x \in CallXs, y \in CallYs :
    /\ IF can_place(x, y)
       THEN /\ goal' = <<x, y>>
            /\ call' = [op |-> "set_goal", x |-> x, y |-> y, raised |-> FALSE]
       ELSE /\ goal' = goal
            /\ call' = [op |-> "set_goal", x |-> x, y |-> y, raised |-> TRUE]
    /\ UNCHANGED <<width, height, grid, start, planVars, stack, pc>>

GridNext == set_obstacle \/ set_start \/ set_goal

SpecGrid == GridInit /\ [][GridNext]_vars

\* ---------------------------------------------------- distance queries
\* grids of DistShape with at most MaxDistObstacles Blocked cells
DistInit ==
  /\ width = DistShape[1]
  /\ height = DistShape[2]
  /\ grid \in GridsWith(Cells(width, height), MaxDistObstacles)
  /\ start = None
  /\ goal = None
  /\ stack = <<>>
  /\ pc = "dist"
  /\ call = NoCall
  /\ PlanIdle

\* a call of get_distance_to_obstacle on an in-bounds coordinate; the method
\* only reads the grid, so one call per grid reaches every outcome
DistanceQuery ==
  \E x \in 0 .. width - 1, y \in 0 .. height - 1 :
    /\ call.op = "none"
    /\ call' = [op |-> "get_distance_to_obstacle", x |-> x, y |-> y,
                ret |-> get_distance_to_obstacle(x, y)]
    /\ UNCHANGED <<gridVars, planVars, stack, pc>>

DistNext == DistanceQuery

SpecDist == DistInit /\ [][DistNext]_vars

\* ------------------------------------------------------ GridMap construction
\* largest width and height a GridMap is constructed with
MaxCreateSize == 8

\* the widths and heights passed to GridMap(width, height)
CreateSizes == -3 .. MaxCreateSize

\* no GridMap object exists yet: no cells
CreateInit ==
  /\ width = 0
  /\ height = 0
  /\ grid = None
  /\ start = None
  /\ goal = None
  /\ stack = <<>>
  /\ pc = "create"
  /\ call = NoCall
  /\ PlanIdle

\* GridMap(w, h): the constructor tests neither argument; np.zeros((h, w))
\* raises ValueError for a negative dimension and accepts 0, and when it
\* raises no object is returned
GridMap_init ==
  \E w \in CreateSizes, h \in CreateSizes :
    /\ pc = "create"
    /\ IF w < 0 \/ h < 0
       THEN /\ call' = [op |-> "GridMap", width |-> w, height |-> h, raised |-> TRUE]
            /\ UNCHANGED gridVars
       ELSE /\ width' = w
            /\ height' = h
            /\ grid' = [c \in Cells(w, h) |-> 0]
            /\ start' = None
            /\ goal' = None
            /\ call' = [op |-> "GridMap", width |-> w, height |-> h, raised |-> FALSE]
    /\ pc' = "grid"
    /\ UNCHANGED <<planVars, stack>>

CreateNext == GridMap_init

SpecCreate == CreateInit /\ [][CreateNext]_vars

\* ------------------------------------------------------ GridMap.load_from_file
\* most lines in a map file
MaxFileLines == 4

\* a line of a map file is the sequence of its whitespace-separated tokens;
\* the comment line starts with '#'
FileLines ==
  { <<"#">>, <<"2", "2">>, <<"START", "0", "0">>, <<"GOAL", "1", "1">>,
    <<"GOAL", "2", "0">>, <<"0", "1">>, <<"1", "0">>, <<"1", "1">>, <<"0">> }

RECURSIVE FilesUpTo(_)
FilesUpTo(n) ==
  IF n = 0 THEN {<<>>}
  ELSE LET shorter == FilesUpTo(n - 1)
       IN  shorter \cup {Append(f, l) : f \in shorter, l \in FileLines}

Files == FilesUpTo(MaxFileLines)

\* the tokens int() accepts, and its value
IntTokens == {"0", "1", "2"}

int(tok) == CASE tok = "0" -> 0 [] tok = "1" -> 1 [] tok = "2" -> 2

all_int(parts) == \A i \in 1 .. Len(parts) : parts[i] \in IntTokens

\* lines[line_idx][0].isdigit(): the line's first character is a digit
isdigit(line) == line[1] \in IntTokens

\* [line.strip() for line in lines if line.strip() and not line.startswith('#')]
kept_lines(file) == SelectSeq(file, LAMBDA l : l # <<>> /\ l[1] # "#")

\* the while loop over the START and GOAL lines; line_idx counts from 0
RECURSIVE header_loop(_, _, _, _)
header_loop(lines, line_idx, st, gl) ==
  IF line_idx < Len(lines) /\ ~isdigit(lines[line_idx + 1])
  THEN LET parts == lines[line_idx + 1]
           coords_ok == Len(parts) >= 3 /\ parts[2] \in IntTokens /\ parts[3] \in IntTokens
       IN  IF parts[1] = "START"
           THEN IF coords_ok
                THEN header_loop(lines, line_idx + 1, <<int(parts[2]), int(parts[3])>>, gl)
                ELSE [raised |-> TRUE]
           ELSE IF parts[1] = "GOAL"
           THEN IF coords_ok
                THEN header_loop(lines, line_idx + 1, st, <<int(parts[2]), int(parts[3])>>)
                ELSE [raised |-> TRUE]
           ELSE header_loop(lines, line_idx + 1, st, gl)
  ELSE [raised |-> FALSE, line_idx |-> line_idx, start |-> st, goal |-> gl]

\* GridMap.load_from_file on the lines of a file: the loaded grid, or
\* raised when an exception leaves the method
load_result(file) ==
  LET lines == kept_lines(file)
  IN  IF lines = <<>> THEN [raised |-> TRUE]
      ELSE IF Len(lines[1]) # 2 \/ ~all_int(lines[1]) THEN [raised |-> TRUE]
      ELSE LET w == int(lines[1][1])
               h == int(lines[1][2])
               head == header_loop(lines, 1, None, None)
           IN  IF head.raised THEN [raised |-> TRUE]
               ELSE IF \E y \in 0 .. h - 1 :
                         /\ head.line_idx + y < Len(lines)
                         /\ ~all_int(lines[head.line_idx + y + 1])
               THEN [raised |-> TRUE]
               ELSE [raised |-> FALSE, width |-> w, height |-> h,
                     start |-> head.start, goal |-> head.goal,
                     grid |-> [c \in Cells(w, h) |->
                                 IF /\ head.line_idx + c[2] < Len(lines)
                                    /\ c[1] < Len(lines[head.line_idx + c[2] + 1])
                                 THEN int(lines[head.line_idx + c[2] + 1][c[1] + 1])
                                 ELSE 0]]

\* no file has been loaded yet: no GridMap object, no cells
LoadInit ==
  /\ width = 0
  /\ height = 0
  /\ grid = None
  /\ start = None
  /\ goal = None
  /\ stack = <<>>
  /\ pc = "load"
  /\ call = NoCall
  /\ PlanIdle

load_from_file ==
  \E file \in Files :
    /\ pc = "load"
    /\ LET res == load_result(file)
       IN  IF res.raised
           THEN /\ call' = [op |-> "load_from_file", file |-> file, raised |-> TRUE]
                /\ UNCHANGED gridVars
           ELSE /\ width' = res.width
                /\ height' = res.height
                /\ grid' = res.grid
                /\ start' = res.start
                /\ goal' = res.goal
                /\ call' = [op |-> "load_from_file", file |-> file, raised |-> FALSE]
    /\ pc' = "grid"
    /\ UNCHANGED <<planVars, stack>>

LoadNext == load_from_file

SpecLoad == LoadInit /\ [][LoadNext]_vars

\* ---------------------------------------------------- neighbour queries
\* <<width, height>> of the grids neighbours are listed on
NbrShape == <<3, 3>>

\* largest number of Blocked cells in such a grid
MaxNbrObstacles == 3

NbrInit ==
  /\ width = NbrShape[1]
  /\ height = NbrShape[2]
  /\ grid \in GridsWith(Cells(width, height), MaxNbrObstacles)
  /\ start = None
  /\ goal = None
  /\ stack = <<>>
  /\ pc = "neighbors"
  /\ call = NoCall
  /\ PlanIdle

\* a call of get_neighbors on a coordinate of the grid or of the ring around
\* it; the method only reads the grid, so one call per grid reaches every
\* outcome
NeighborsQuery ==
  \E x \in -1 .. width, y \in -1 .. height, diag \in BOOLEAN :
    /\ call.op = "none"
    /\ call' = [op |-> "get_neighbors", x |-> x, y |-> y, allow_diagonal |-> diag,
                ret |-> get_neighbors(x, y, diag)]
    /\ UNCHANGED <<gridVars, planVars, stack, pc>>

NbrNext == NeighborsQuery

SpecNbr == NbrInit /\ [][NbrNext]_vars

\* --------------------------------------------- reference notions for claims
\* a valid Move: one of the 8 offsets, destination in-bounds and Free
ValidMove(a, b) ==
  /\ b[1] - a[1] \in {-1, 0, 1}
  /\ b[2] - a[2] \in {-1, 0, 1}
  /\ a # b
  /\ b \in DOMAIN grid
  /\ grid[b] = 0

MoveCost(a, b) == IF a[1] # b[1] /\ a[2] # b[2] THEN DiagCost ELSE FOne

\* the cells connected to the cells of S by valid Moves
RECURSIVE ReachFrom(_)
ReachFrom(S) ==
  LET T == S \cup {b \in DOMAIN grid : \E a \in S : ValidMove(a, b)}
  IN  IF T = S THEN S ELSE ReachFrom(T)

\* exhaustive search: after k rounds best[v] is the least cost, summed edge
\* by edge from the start, over all sequences of at most k valid Moves from
\* s to v (FInf when there is none); repeated until no cost improves
RECURSIVE BestCosts(_)
BestCosts(best) ==
  LET next == [v \in DOMAIN best |->
                 FMin(best[v],
                      FMinOf({FAdd(best[u], MoveCost(u, v)) :
                                u \in {w \in DOMAIN best :
                                         best[w] # FInf /\ ValidMove(w, v)}}))]
  IN  IF next = best THEN best ELSE BestCosts(next)

MinPathCost(s, g) ==
  BestCosts([v \in DOMAIN grid \cup {s} |-> IF v = s THEN FZero ELSE FInf])[g]

PathOk(path) ==
  /\ Len(path) >= 1
  /\ path[1] = p_start
  /\ path[Len(path)] = p_goal
  /\ \A i \in 1 .. Len(path) - 1 : ValidMove(path[i], path[i + 1])

\* ------------------------------------------------------------------ claims
\* C1: whenever either planner returns a path, the path starts at start,
\* ends at goal, and every consecutive pair of coordinates is a valid Move
\* (one of the 8 offsets, destination in-bounds and Free).
C1_PathIsValid ==
  BothDone =>
    /\ dijkstra.pc = "found" => PathOk(dijkstra.path)
    /\ astar.pc = "found" => PathOk(astar.path)

C1_Witness ==
  /\ BothFound
  /\ Len(dijkstra.path) >= 4
  /\ Len(astar.path) >= 4
  /\ astar.path # dijkstra.path
  /\ \E c \in DOMAIN grid : grid[c] = 1

\* C2: the path_cost Dijkstra returns is the true minimum, over all paths of
\* valid Moves from start to goal, of the sum of the per-edge costs.
C2_DijkstraCostIsMinimal ==
  dijkstra.pc = "found" => dijkstra.path_cost = MinPathCost(p_start, p_goal)

C2_Witness ==
  /\ dijkstra.pc = "found"
  /\ Len(dijkstra.path) >= 5
  /\ dijkstra.nodes_explored >= 8
  /\ Cardinality({c \in DOMAIN grid : grid[c] = 1}) >= 3

\* C3: where both planners succeed, A* and Dijkstra return the same
\* path_cost.
C3_CostsEqual == BothFound => astar.path_cost = dijkstra.path_cost

\* C4: where both planners succeed, A* explores no more nodes than Dijkstra.
C4_AStarExploresNoMore ==
  BothFound => astar.nodes_explored <= dijkstra.nodes_explored

C4_Witness ==
  /\ BothFound
  /\ astar.nodes_explored < dijkstra.nodes_explored
  /\ astar.nodes_explored > Len(astar.path)
  /\ \E c \in DOMAIN grid : grid[c] = 1

\* C5: each planner returns a path exactly when the goal is connected to the
\* start by valid Moves, and otherwise returns the failure result: no path
\* and path_cost +infinity.
PlanOutcomeOk(st, connected) ==
  /\ st.pc = "found" => connected /\ st.path # None
  /\ st.pc = "failed" => ~connected /\ st.path = None /\ st.path_cost = FInf

C5_FailureIffUnreachable ==
  BothDone =>
    LET connected == p_goal \in ReachFrom({p_start})
    IN  PlanOutcomeOk(dijkstra, connected) /\ PlanOutcomeOk(astar, connected)

C5_Witness ==
  /\ dijkstra.pc = "failed"
  /\ astar.pc = "failed"
  /\ grid[p_start] = 0
  /\ grid[p_goal] = 0
  /\ astar.nodes_explored >= 3

\* ---- maze claims
FreeCells == {c \in DOMAIN grid : grid[c] = 0}

IsFree(c) == c \in DOMAIN grid /\ grid[c] = 0

\* the four orthogonally adjacent coordinates
Around4(c) ==
  {<<c[1] + 1, c[2]>>, <<c[1] - 1, c[2]>>, <<c[1], c[2] + 1>>, <<c[1], c[2] - 1>>}

RECURSIVE Flood(_, _)
Flood(S, frontier) ==
  LET new == {b \in UNION {Around4(a) : a \in frontier} : IsFree(b) /\ b \notin S}
  IN  IF new = {} THEN S ELSE Flood(S \cup new, new)

\* the Free cells joined to c through orthogonally adjacent Free cells
FreeRegion(c) == Flood({c}, {c})

\* number of pairs of orthogonally adjacent Free cells, each counted once
FreePairCount ==
  Cardinality({c \in FreeCells : IsFree(<<c[1] + 1, c[2]>>)})
  + Cardinality({c \in FreeCells : IsFree(<<c[1], c[2] + 1>>)})

\* C6: after generate_maze returns, the Free cells form a single component
\* under orthogonal adjacency: every Free cell is reachable from every other.
C6_MazeConnected ==
  pc = "done" => \A c \in FreeCells : FreeRegion(c) = FreeCells

C6_Witness ==
  /\ pc = "done"
  /\ width = 7
  /\ height >= 5
  /\ Cardinality(FreeCells) >= 11
  /\ start # goal

\* C7: after maze carving the Free cells form a tree under orthogonal
\* adjacency: connected, and the number of adjacent Free-Free pairs is the
\* number of Free cells minus one (no cycle).
C7_MazeIsTree ==
  pc = "done" =>
    /\ FreePairCount = Cardinality(FreeCells) - 1
    /\ FreeRegion(<<1, 1>>) = FreeCells

C7_Witness ==
  /\ pc = "done"
  /\ width = 7
  /\ height = 7
  /\ \E c \in FreeCells :
       Cardinality({b \in Around4(c) : IsFree(b)}) >= 3

\* ---- distance claims
Queried == call.op = "get_distance_to_obstacle"

FLeq(a, b) == ~FLess(b, a)

UnsafeOffsets(x, y) ==
  {d \in (-search_radius .. search_radius) \X (-search_radius .. search_radius) :
     LET c == <<x + d[1], y + d[2]>>
     IN  c \notin DOMAIN grid \/ grid[c] = 1}

\* C9 as stated: the value returned for (x, y) is the Euclidean distance to
\* the closest window cell that is Blocked or out of bounds, and the search
\* radius only when the window holds no such cell.
C9_OutOfBoundsCounts ==
  Queried =>
    LET unsafe == UnsafeOffsets(call.x, call.y)
    IN  call.ret = IF unsafe = {} THEN FInt(search_radius)
                   ELSE FMinOf({FSqrt(Dist2(d, <<0, 0>>)) : d \in unsafe})

\* ---- set_start / set_goal claims
InBoundsFree(x, y) == <<x, y>> \in DOMAIN grid /\ grid[<<x, y>>] = 0

\* C10: set_start(x, y) and set_goal(x, y) raise when (x, y) is out of bounds
\* or Blocked and then leave start, goal and the cells as they were; when
\* (x, y) is in-bounds and Free they set start (respectively goal) to (x, y)
\* and change nothing else.
C10_SetStartGoalChecked ==
  [][/\ call'.op = "set_start" =>
          IF InBoundsFree(call'.x, call'.y)
          THEN /\ ~call'.raised
               /\ start' = <<call'.x, call'.y>>
               /\ goal' = goal
               /\ grid' = grid
          ELSE /\ call'.raised
               /\ UNCHANGED <<start, goal, grid>>
     /\ call'.op = "set_goal" =>
          IF InBoundsFree(call'.x, call'.y)
          THEN /\ ~call'.raised
               /\ goal' = <<call'.x, call'.y>>
               /\ start' = start
               /\ grid' = grid
          ELSE /\ call'.raised
               /\ UNCHANGED <<start, goal, grid>>]_vars

C10_Witness ==
  /\ call.op = "set_goal"
  /\ call.raised
  /\ <<call.x, call.y>> \in DOMAIN grid
  /\ grid[<<call.x, call.y>>] = 1
  /\ start # None
  /\ goal # None
  /\ goal # start

\* ---- construction claims
\* C11 as stated: GridMap(width, height) fails whenever width <= 0 or
\* height <= 0, and otherwise yields a width x height grid whose cells are
\* all Free.
C11_CreateChecked ==
  call.op = "GridMap" =>
    IF call.width <= 0 \/ call.height <= 0
    THEN call.raised
    ELSE /\ ~call.raised
         /\ width = call.width
         /\ height = call.height
         /\ DOMAIN grid = Cells(call.width, call.height)
         /\ \A c \in DOMAIN grid : grid[c] = 0

\* ---- load_from_file claims
Loaded == call.op = "load_from_file"

\* the file's first line that is not a comment is a dimension line: two integers
HasDimensionLine(file) ==
  LET lines == SelectSeq(file, LAMBDA l : l[1] # "#")
  IN  lines # <<>> /\ Len(lines[1]) = 2 /\ lines[1][1] \in IntTokens
                   /\ lines[1][2] \in IntTokens

\* number of cell rows: the lines after the dimension line that are neither
\* comments nor START or GOAL lines
CellRowCount(file) ==
  LET lines == SelectSeq(file, LAMBDA l : l[1] # "#")
  IN  Cardinality({i \in 2 .. Len(lines) : lines[i][1] \notin {"START", "GOAL"}})

\* C12 as stated: load_from_file fails when the file has no dimension line
\* or when its number of cell rows differs from the declared height; a grid
\* is never returned from a file with too few rows.
C12_LoadChecked ==
  Loaded /\ ~call.raised =>
    /\ HasDimensionLine(call.file)
    /\ CellRowCount(call.file) = height

\* ---- get_neighbors claims
\* the compass order of the offsets: orthogonal ones first
CompassOrder == << <<0, 1>>, <<1, 0>>, <<0, -1>>, <<-1, 0>>,
                   <<1, 1>>, <<1, -1>>, <<-1, 1>>, <<-1, -1>> >>

CompassRank(d) == CHOOSE i \in 1 .. Len(CompassOrder) : CompassOrder[i] = d

IsDiagonal(d) == d[1] # 0 /\ d[2] # 0

\* the adjacent cells of (x, y) that are in-bounds and Free
AdjacentFree(x, y, diag) ==
  {c \in DOMAIN grid :
     /\ grid[c] = 0
     /\ c # <<x, y>>
     /\ c[1] - x \in {-1, 0, 1}
     /\ c[2] - y \in {-1, 0, 1}
     /\ diag \/ ~IsDiagonal(<<c[1] - x, c[2] - y>>)}

InsertionCounted(st) ==
  /\ \A e \in st.open_list : e[2] < st.counter
  /\ \A e, o \in st.open_list : e # o => e[2] # o[2]

\* C14: whichever entry heappop returns among those least by priority and
\* insertion counter, a run of plan() returns the path, path_cost, expansion
\* trace and nodes_explored of every other run of the same algorithm on the
\* same grid, start and goal; frontier entries carry distinct, increasing
\* insertion counters, so entries of equal priority leave in insertion order.
C14_RunsAgree ==
  /\ astar # None => InsertionCounted(astar)
  /\ dijkstra # None => InsertionCounted(dijkstra)
  /\ BothDone =>
       /\ PlanResult(astar) = PlanResult(AStarRun(AStarStart(p_start, p_goal), p_goal))
       /\ PlanResult(dijkstra) = PlanResult(DijkstraRun(DijkstraStart(p_start), p_goal))

C14_Witness ==
  /\ BothFound
  /\ astar.nodes_explored >= 4
  /\ \E e, o \in astar.open_list : e # o /\ e[1] = o[1]
  /\ \E e, o \in dijkstra.open_list : e # o /\ e[1] = o[1]
  /\ \E c \in DOMAIN grid : grid[c] = 1

\* ---- start/goal assignment claims
\* C15: when start and goal are assigned on a generated grid with at least
\* two Free cells, start is a Free cell and goal is a Free cell whose
\* Euclidean distance to start is the largest among all Free cells; goal
\* differs from start.
C15_GoalIsFarthest ==
  [][(pc # "done" /\ pc' = "done" /\ Cardinality(FreeCells) >= 2) =>
       /\ grid' = grid
       /\ start' \in FreeCells
       /\ goal' \in FreeCells
       /\ \A c \in FreeCells : Dist2(c, start') <= Dist2(goal', start')
       /\ goal' # start']_vars

C15_Witness ==
  /\ pc = "done"
  /\ call.op = "generate_random_map"
  /\ Cardinality(FreeCells) = 5
  /\ start = <<1, 1>>
  /\ goal = <<2, 2>>
  /\ grid[<<0, 0>>] = 1

\* ---- concurrency claims
\* C16: when a Dijkstra plan and an A* plan run concurrently on the same
\* grid, each with its own frontier, cost map, parent map and closed set,
\* then under every interleaving of their iterations each returns the path,
\* path_cost and expansion trace it returns when run alone, and the grid's
\* cells, start and goal never change.
C16_ConcurrentRunsAgree ==
  /\ [](BothDone =>
          /\ PlanResult(astar)
               = PlanResult(AStarRun(AStarStart(p_start, p_goal), p_goal))
          /\ PlanResult(dijkstra)
               = PlanResult(DijkstraRun(DijkstraStart(p_start), p_goal)))
  /\ [][UNCHANGED gridVars]_vars

C16_Witness ==
  /\ dijkstra.pc = "found"
  /\ astar.pc = "loop"
  /\ astar.nodes_explored >= 2
  /\ astar.open_list # {}
  /\ \E c \in DOMAIN grid : grid[c] = 1

\* ---- estimate claims
\* C17 as stated: for every cell n and goal reachable from n, the estimate
\* heuristic(n, goal) is at most the least total edge cost of a path from n
\* to goal, with the edge costs get_neighbors returns.
C17_HeuristicAdmissible ==
  p_goal \in ReachFrom({p_start}) =>
    FLeq(heuristic(p_start, p_goal), MinPathCost(p_start, p_goal))

\* ---- closed set claims
\* every Closed coordinate carries the least cost of a path from the start
ClosedAreOptimal(closed_set, cost) ==
  LET best == BestCosts([v \in DOMAIN grid |-> IF v = p_start THEN FZero ELSE FInf])
  IN  \A n \in closed_set : cost[n] = best[n]

\* a step leaves the cost and the parent of every Closed coordinate as they
\* were
ClosedAreFrozen(closed_set, cost, cost_after, came_from, came_from_after) ==
  \A n \in closed_set :
    /\ cost_after[n] = cost[n]
    /\ (n \in DOMAIN came_from_after) = (n \in DOMAIN came_from)
    /\ n \in DOMAIN came_from => came_from_after[n] = came_from[n]

\* C18 as stated: in both planners a coordinate enters the closed set with a
\* cost-so-far equal to the least cost of any path from start to it, and
\* from then on neither its cost-so-far nor its parent changes.  (With the
\* second part, the first is read off the closed sets when both calls have
\* returned.)
C18_ClosedIsFinal ==
  /\ [](BothDone =>
          /\ ClosedAreOptimal(dijkstra.closed_set, dijkstra.cost_so_far)
          /\ ClosedAreOptimal(astar.closed_set, astar.g_score))
  /\ [][/\ ClosedAreFrozen(dijkstra.closed_set, dijkstra.cost_so_far,
                           dijkstra'.cost_so_far, dijkstra.came_from,
                           dijkstra'.came_from)
        /\ ClosedAreFrozen(astar.closed_set, astar.g_score, astar'.g_score,
                           astar.came_from, astar'.came_from)]_vars

\* ---- start/goal invariant claims
\* C19 as stated: in every state reached by grid operations, start and goal
\* are each either unset or an in-bounds coordinate whose cell is Free.
C19_StartGoalOnFree ==
  /\ start = None \/ InBoundsFree(start[1], start[2])
  /\ goal = None \/ InBoundsFree(goal[1], goal[2])

\* ---- maze termination claims
\* C20: maze carving terminates.  For every requested width and height and
\* every sequence of random neighbour choices the stack of generate_maze
\* eventually is empty; each iteration of the carving loop either pops the
\* stack or pushes a lattice cell that was still Blocked and clears it, and
\* a cleared cell stays Free, so no lattice cell is pushed twice.
C20_CarvingTerminates ==
  /\ <>(stack = <<>>)
  /\ [][(pc = "carve" /\ stack # <<>>) =>
          /\ \A c \in DOMAIN grid : grid[c] = 0 => grid'[c] = 0
          /\ \/ /\ stack' = SubSeq(stack, 1, Len(stack) - 1)
                /\ grid' = grid
             \/ \E n \in DOMAIN grid :
                  /\ n[1] % 2 = 1
                  /\ n[2] % 2 = 1
                  /\ stack' = Append(stack, n)
                  /\ grid[n] = 1
                  /\ grid'[n] = 0]_vars

C20_Witness ==
  /\ pc = "carve"
  /\ stack = <<>>
  /\ width = 7
  /\ height = 7
  /\ Cardinality(FreeCells) = 17

\* ---- lazy deletion claims
\* the frontier entry the next iteration pops is stale: its coordinate is
\* already Closed
PopsStale(st) ==
  /\ st.pc = "loop"
  /\ st.open_list # {}
  /\ HeapMin(st.open_list)[3] \in st.closed_set

\* no coordinate appears twice in the expansion trace, and nodes_explored is
\* the length of the trace
TraceIsSet(st) ==
  /\ \A i, j \in 1 .. Len(st.explored_nodes) :
       st.explored_nodes[i] = st.explored_nodes[j] => i = j
  /\ st.nodes_explored = Len(st.explored_nodes)

\* frontier entries popped so far that were discarded as stale
StalePops(st) == st.counter - Cardinality(st.open_list) - st.nodes_explored

\* C21: in both planners an iteration that pops an entry whose coordinate is
\* already Closed only removes that entry: cost-so-far, parents, closed set,
\* expansion trace and nodes_explored stay as they were; and in every
\* reachable state no coordinate appears twice in the expansion trace and
\* nodes_explored is the length of the trace.
C21_StaleEntriesDiscarded ==
  /\ [](TraceIsSet(dijkstra) /\ TraceIsSet(astar))
  /\ [][/\ (PopsStale(dijkstra) /\ dijkstra' # dijkstra) =>
             dijkstra' = [dijkstra EXCEPT
                            !.open_list = @ \ {HeapMin(dijkstra.open_list)}]
        /\ (PopsStale(astar) /\ astar' # astar) =>
             astar' = [astar EXCEPT !.open_list = @ \ {HeapMin(astar.open_list)}]]_vars

C21_Witness ==
  /\ BothFound
  /\ StalePops(dijkstra) >= 1
  /\ StalePops(astar) >= 1
  /\ \E c \in DOMAIN grid : grid[c] = 1

====
